---- MODULE Spec2Model ----
(***************************************************************************)
(* Model of bitcoin_lab.py: the interactive menu loop of main(), the       *)
(* wallet factory (create_wallet, create_segwit_wallet) and the five       *)
(* catch-and-stringify wrappers (get_balance, get_transaction_history,     *)
(* estimate_fee, get_bitcoin_price, simulate_transaction).                 *)
(*                                                                         *)
(* The 'bit' library, 'requests' and 'secrets' are the environment: every  *)
(* call into them either returns a value of its documented type or raises  *)
(* an exception (a subclass of Exception), chosen nondeterministically.    *)
(* A Python str is modelled as a sequence of tokens (words for messages,   *)
(* characters for text that the program parses), so that prefixes, parsing *)
(* and replace() are computed rather than assumed.                         *)
(***************************************************************************)
EXTENDS Integers, Sequences, FiniteSets, TLC

VARIABLES
    pc,            \* where main() is blocked: an input() call, or finished
    option,        \* main: option (line 115), the last menu input read
    wallets,       \* main: wallets (line 111), the session list
    index,         \* main: index (line 175)
    source_wif,    \* main: source_wif (line 180)
    destination,   \* main: destination (line 181)
    exc,           \* the exception that left main() uncaught, "none" if none
    out,           \* lines printed since the last menu input was read
    prompts,       \* input() prompts issued since the last menu input was read
    typed,         \* what the user typed at those prompts
    calls,         \* program functions called since the last menu input was read
    simCall,       \* arguments of the simulate_transaction call made, if any
    result,        \* what the last wrapper called returned, and what its calls did
    created        \* history: the wallet creations that succeeded, in order

vars == <<pc, option, wallets, index, source_wif, destination, exc,
          out, prompts, typed, calls, simCall, result, created>>

----------------------------------------------------------------------------
(* Bounds of the model *)

MaxWallets == 2     \* options 1 and 2 are offered while fewer wallets exist
NumKeys == 2        \* distinct 256-bit entropies secrets.token_bytes may yield

----------------------------------------------------------------------------
(* Python values *)

PyInt(n) == [type |-> "int", val |-> n]
PyFloat(chars) == [type |-> "float", val |-> chars]
PyStr(toks) == [type |-> "str", val |-> toks]
PyList(items) == [type |-> "list", val |-> items]
PyDict(fields) == [type |-> "dict", val |-> fields]

\* A function either returns a value or raises an exception of some class.
Return(v) == [tag |-> "return", val |-> v, kind |-> "none", msg |-> <<>>]
Raise(k, m) == [tag |-> "raise", val |-> PyStr(<<>>), kind |-> k, msg |-> m]

StartsWith(s, p) == Len(s) >= Len(p) /\ SubSeq(s, 1, Len(p)) = p

IsPrefix(s, t) == Len(s) =< Len(t) /\ SubSeq(t, 1, Len(s)) = s

Last(s) == s[Len(s)]

----------------------------------------------------------------------------
(* Exceptions.  The classes that appear: what the libraries raise, what    *)
(* int()/float()/list indexing raise, and what input() raises at the end   *)
(* of the input stream.  All of them derive from Exception.                *)

LibraryErrors == {"ValueError", "ConnectionError"}

ExceptionSubclasses ==
    LibraryErrors \cup {"KeyError", "TypeError", "IndexError", "EOFError"}

\* 'except ValueError' narrowed to nothing: the handler never matches.
CaughtByNothing(kind) == FALSE

\* except ValueError: (line 194)
CaughtByValueError(kind) == kind = "ValueError"

\* 'except Exception' written as 'except ValueError'.
CaughtOnlyValueError(kind) == kind = "ValueError"

\* except Exception as e: (lines 51, 58, 65, 74, 93)
CaughtByException(kind) == kind \in ExceptionSubclasses

\* try: <body>  except Exception as e: return f"<prefix>{e}"
TryExcept(body, prefix) ==
    IF body.tag = "raise" /\ CaughtByException(body.kind)
    THEN Return(PyStr(prefix \o body.msg))
    ELSE body

\* What one call into a library does: returns, or raises with a message.
LibOutcomes ==
    {[raised |-> FALSE, kind |-> "none", msg |-> <<>>]}
    \cup {[raised |-> TRUE, kind |-> k, msg |-> <<"failed">>] : k \in LibraryErrors}

\* The value of a library call: v when it returns, the exception otherwise.
LibCall(lib, v) == IF lib.raised THEN Raise(lib.kind, lib.msg) ELSE Return(v)

----------------------------------------------------------------------------
(* Text that the program parses: int(), float() and str.replace().  Such   *)
(* strings are sequences of characters.                                    *)

Digits == {"0", "1", "2", "3", "4", "5", "6", "7", "8", "9"}

DigitValue(c) == CHOOSE i \in 0..9 : ToString(i) = c

AllDigits(s) == Len(s) >= 1 /\ \A i \in 1..Len(s) : s[i] \in Digits

HasSign(s) == Len(s) >= 1 /\ s[1] \in {"-", "+"}

Unsigned(s) == IF HasSign(s) THEN Tail(s) ELSE s

\* int(s) accepts an optional sign followed by decimal digits.
IsIntLiteral(s) == AllDigits(Unsigned(s))

RECURSIVE DecimalValue(_)
DecimalValue(s) ==
    IF s = <<>> THEN 0
    ELSE 10 * DecimalValue(SubSeq(s, 1, Len(s) - 1)) + DigitValue(Last(s))

IntValue(s) ==
    IF HasSign(s) /\ s[1] = "-" THEN 0 - DecimalValue(Tail(s))
    ELSE DecimalValue(Unsigned(s))

\* int(text): the integer, or ValueError (line 175)
int(s) ==
    IF IsIntLiteral(s) THEN Return(PyInt(IntValue(s)))
    ELSE Raise("ValueError", <<"invalid", "literal", "for", "int()">>)

\* float(s) accepts an optional sign and decimal digits around at most one
\* point (the decimal notation; the inputs drawn use no exponent, inf or nan).
IsFloatLiteral(s) ==
    LET u == Unsigned(s)
        points == {i \in 1..Len(u) : u[i] = "."}
    IN  /\ Cardinality(points) =< 1
        /\ \A i \in 1..Len(u) : u[i] \in Digits \cup {"."}
        /\ \E i \in 1..Len(u) : u[i] \in Digits

\* float(text): the number, or ValueError (lines 73 and 182)
float(s) ==
    IF IsFloatLiteral(s) THEN Return(PyFloat(s))
    ELSE Raise("ValueError", <<"could", "not", "convert", "string", "to", "float">>)

IsNotComma(c) == c # ","

\* rate.replace(',', '') (line 73)
RemoveCommas(s) == SelectSeq(s, IsNotComma)

\* list[i] with Python's indexing: 0-based, negative indices count from the
\* end, anything else raises IndexError (line 180).
ListGet(ws, i) ==
    IF 0 =< i /\ i < Len(ws) THEN Return(ws[i + 1])
    ELSE IF 0 - Len(ws) =< i /\ i < 0 THEN Return(ws[Len(ws) + i + 1])
    ELSE Raise("IndexError", <<"list", "index", "out", "of", "range">>)

----------------------------------------------------------------------------
(* Wallet factory (lines 19-45).  A private key is its entropy; its WIF    *)
(* text is the Base58Check encoding of the entropy with the compression    *)
(* flag; an address commits to the key and to the script format.           *)

Entropy == 1..NumKeys

\* bytes_to_wif(entropy, compressed=True) (line 24)
bytes_to_wif(entropy) == [wif |-> entropy, compressed |-> TRUE]

\* generate_private_key (lines 19-25)
generate_private_key(entropy) == bytes_to_wif(entropy)

\* Key(wif) decodes the WIF text into a key object (lines 30, 40, 80)
Key(w) == [secret |-> w.wif, compressed |-> w.compressed]

\* SegWitKey.from_wif(wif) (line 40)
SegWitKey_from_wif(w) == [secret |-> w.wif, compressed |-> w.compressed]

\* key.to_wif() (lines 32, 40, 42)
to_wif(k) == [wif |-> k.secret, compressed |-> k.compressed]

\* key.address: the P2PKH address of the key (lines 33, 88)
address(k) == <<"P2PKH", k.secret>>

\* key.segwit_address: the P2SH-P2WPKH address of the key (line 43)
segwit_address(k) == <<"P2SH-P2WPKH", k.secret>>

LegacyFormat == "P2PKH (Legacy)"
SegWitFormat == "P2SH-P2WPKH (SegWit)"

\* create_wallet with the formats swapped.
create_wallet_wrong_format(entropy, lib) ==
    IF lib.raised THEN Raise(lib.kind, lib.msg)
    ELSE LET wallet == Key(generate_private_key(entropy))
         IN  Return([private_key |-> to_wif(wallet),
                     address |-> address(wallet),
                     format |-> SegWitFormat])

\* create_wallet (lines 27-35): no try, a library failure propagates.
create_wallet(entropy, lib) ==
    IF lib.raised THEN Raise(lib.kind, lib.msg)
    ELSE LET wallet == Key(generate_private_key(entropy))
         IN  Return([private_key |-> to_wif(wallet),
                     address |-> address(wallet),
                     format |-> LegacyFormat])

\* create_segwit_wallet (lines 37-45): no try, a library failure propagates.
create_segwit_wallet(entropy, lib) ==
    IF lib.raised THEN Raise(lib.kind, lib.msg)
    ELSE LET wallet == SegWitKey_from_wif(to_wif(Key(generate_private_key(entropy))))
         IN  Return([private_key |-> to_wif(wallet),
                     address |-> segwit_address(wallet),
                     format |-> SegWitFormat])

----------------------------------------------------------------------------
(* The wrappers (lines 47-94).  Each is a try body and the blanket         *)
(* handler; the body is kept apart so that what the delegated calls did    *)
(* can be compared with what the wrapper returned.                         *)

Balances == {0, 5000}
Histories == {<<>>, <<"txid">>}
Fees == {10}
TxHex == <<"0", "1", "0", "0">>

\* bit.network.get_balance(address) (line 50)
get_balance_body(addr, net, balance) == LibCall(net, PyInt(balance))

\* get_balance (lines 47-52)
get_balance(addr, net, balance) ==
    TryExcept(get_balance_body(addr, net, balance), <<"Error", "getting", "balance:">>)

\* bit.network.get_transactions(address) (line 57)
get_transaction_history_body(addr, net, txs) == LibCall(net, PyList(txs))

\* get_transaction_history (lines 54-59)
get_transaction_history(addr, net, txs) ==
    TryExcept(get_transaction_history_body(addr, net, txs),
              <<"Error", "getting", "transaction", "history:">>)

\* get_fee_cached() (line 64)
estimate_fee_body(net, fee) == LibCall(net, PyInt(fee))

\* estimate_fee (lines 61-66)
estimate_fee(net, fee) ==
    TryExcept(estimate_fee_body(net, fee), <<"Error", "estimating", "fee:">>)

\* What the price endpoint may answer: a body that is not JSON, JSON without
\* the bpi/USD/rate path, or JSON with a rate text.
Rates == {<<"6", "7", ",", "1", "2", "3", ".", "4">>, <<"9", "5">>, <<"N", "/", "A">>}

Bodies ==
    {[json |-> FALSE, hasRate |-> FALSE, rate |-> <<>>],
     [json |-> TRUE, hasRate |-> FALSE, rate |-> <<>>]}
    \cup {[json |-> TRUE, hasRate |-> TRUE, rate |-> r] : r \in Rates}

\* The try body of get_bitcoin_price (lines 71-73)
get_bitcoin_price_body(net, body) ==
    IF net.raised THEN Raise(net.kind, net.msg)
    ELSE IF ~body.json THEN Raise("ValueError", <<"Expecting", "value">>)
    ELSE IF ~body.hasRate THEN Raise("KeyError", <<"'bpi'">>)
    ELSE float(RemoveCommas(body.rate))

\* get_bitcoin_price (lines 68-75)
get_bitcoin_price(net, body) ==
    TryExcept(get_bitcoin_price_body(net, body), <<"Error", "getting", "price:">>)

\* The try body of simulate_transaction (lines 80-92).  The fee passed to
\* create_transaction is whatever estimate_fee returned.
simulate_transaction_body(wif, destination_address, amount_btc, keyLib, feeLib, fee, txLib) ==
    IF keyLib.raised THEN Raise(keyLib.kind, keyLib.msg)
    ELSE LET wallet == Key(wif)
             feeArg == estimate_fee(feeLib, fee)
             tx == LibCall(txLib, TxHex)
         IN  IF feeArg.tag = "raise" THEN feeArg
             ELSE IF feeArg.val.type # "int"
             THEN \* create_transaction adds the absolute fee to the amounts
                  Raise("TypeError", <<"unsupported", "operand", "type(s)">>)
             ELSE IF tx.tag = "raise" THEN tx
             ELSE Return(PyDict([source |-> address(wallet),
                                 destination |-> destination_address,
                                 amount_btc |-> amount_btc,
                                 tx_hex |-> tx.val]))

\* simulate_transaction (lines 77-94)
simulate_transaction(wif, destination_address, amount_btc, keyLib, feeLib, fee, txLib) ==
    TryExcept(simulate_transaction_body(wif, destination_address, amount_btc,
                                        keyLib, feeLib, fee, txLib),
              <<"Error", "creating", "transaction:">>)

----------------------------------------------------------------------------
(* What the user may type, and what the program prints.                    *)

MenuInputs == {"0", "1", "2", "3", "4", "5", "6", "7", "8", "x", ""}

MenuOptions == {"0", "1", "2", "3", "4", "5", "6", "7"}

AddressInputs == {"1BoatSLRHtKNngkdXEeobR76b53LETtpyT", "bogus"}

IndexInputs ==
    {<<ToString(i)>> : i \in 0..(MaxWallets + 1)}
    \cup {<<"-", "1">>, <<"1", ".", "5">>, <<"x">>, <<>>}

AmountInputs == {<<"1">>, <<"0", ".", "5">>, <<"a", "b", "c">>, <<>>}

AddressPrompt == "Enter Bitcoin address: "
SelectPrompt == "Select source wallet (number): "
DestinationPrompt == "Enter destination address: "
AmountPrompt == "Enter amount in BTC: "
AckPrompt == "Press Enter to continue..."

CreatedLegacy == <<"---", "NEW", "WALLET", "CREATED", "(LEGACY)", "---">>
CreatedSegWit == <<"---", "NEW", "WALLET", "CREATED", "(SEGWIT)", "---">>
BalanceLine == <<"Balance:">>
HistoryLine == <<"Transaction", "history", "for">>
FeeLine == <<"Estimated", "fee:">>
PriceLine == <<"Current", "Bitcoin", "price:">>
MustCreate == <<"You", "must", "create", "at", "least", "one", "wallet", "first",
                "(option", "1", "or", "2).">>
AvailableWallets == <<"Available", "wallets:">>
InvalidSelection == <<"Invalid", "selection.">>
InvalidInput == <<"Invalid", "input.", "Please", "enter", "a", "valid", "number.">>
SimulationLine == <<"---", "TRANSACTION", "SIMULATION", "---">>
Goodbye == <<"Thank", "you", "for", "using", "the", "Bitcoin", "Laboratory.", "Goodbye!">>
InvalidOption == <<"Invalid", "option.", "Please", "select", "a", "valid", "option.">>

\* isinstance(value, t) else-branch: print(value) prints the error text
Shown(ret, type, line) == IF ret.val.type = type THEN line ELSE ret.val.val

----------------------------------------------------------------------------
(* main() (lines 109-204) *)

UnboundWif == [wif |-> 0, compressed |-> FALSE]

Init ==
    /\ pc = "menu"
    /\ option = ""
    /\ wallets = <<>>
    /\ index = 0
    /\ source_wif = UnboundWif
    /\ destination = ""
    /\ exc = "none"
    /\ out = <<>>
    /\ prompts = <<>>
    /\ typed = <<>>
    /\ calls = <<>>
    /\ simCall = <<>>
    /\ result = <<>>
    /\ created = <<>>

\* wallets.append(new_wallet) written as a reassignment of the list.
ReplaceWallets(ws, w) == <<w>>

\* wallets.append(new_wallet) (lines 119, 127)
AppendWallet(ws, w) == Append(ws, w)

\* 'if not wallets' with the test inverted.
HasWallets(ws) == ws # <<>>

\* not wallets (line 166)
NoWallets(ws) == ws = <<>>

\* The range test off by one at the upper end.
OutOfRangeAbove(i, ws) == i < 0 \/ i > Len(ws)

\* index < 0 or index >= len(wallets) (line 176)
OutOfRange(i, ws) == i < 0 \/ i >= Len(ws)

Locals == <<index, source_wif, destination>>

\* An exception leaves main(): the process dies with a traceback.
Crash(kind) == pc' = "crashed" /\ exc' = kind

\* The action is over: main() blocks at line 204.
ToAck(lines) ==
    /\ pc' = "ack"
    /\ exc' = exc
    /\ out' = lines
    /\ prompts' = Append(prompts, AckPrompt)

\* An exception reaches the try of option 7 (lines 174-195).
Option7Except(kind) ==
    IF CaughtByValueError(kind)
    THEN ToAck(Append(out, InvalidInput))
    ELSE Crash(kind) /\ out' = out /\ prompts' = prompts

\* option == "1" (lines 117-123)
Option1 ==
    /\ pc = "menu"
    /\ Len(wallets) < MaxWallets
    /\ \E entropy \in Entropy, lib \in LibOutcomes :
         LET new_wallet == create_wallet(entropy, lib)
         IN  /\ option' = "1"
             /\ calls' = <<"create_wallet">>
             /\ typed' = <<>> /\ simCall' = <<>> /\ result' = <<>>
             /\ IF new_wallet.tag = "raise"
                THEN /\ Crash(new_wallet.kind)
                     /\ out' = <<>> /\ prompts' = <<>>
                     /\ UNCHANGED <<wallets, created>>
                ELSE /\ wallets' = AppendWallet(wallets, new_wallet.val)
                     /\ created' = Append(created, [option |-> "1", entropy |-> entropy])
                     /\ pc' = "ack" /\ exc' = exc
                     /\ out' = <<CreatedLegacy>>
                     /\ prompts' = <<AckPrompt>>
    /\ UNCHANGED Locals

\* option == "2" (lines 125-131)
Option2 ==
    /\ pc = "menu"
    /\ Len(wallets) < MaxWallets
    /\ \E entropy \in Entropy, lib \in LibOutcomes :
         LET new_wallet == create_segwit_wallet(entropy, lib)
         IN  /\ option' = "2"
             /\ calls' = <<"create_segwit_wallet">>
             /\ typed' = <<>> /\ simCall' = <<>> /\ result' = <<>>
             /\ IF new_wallet.tag = "raise"
                THEN /\ Crash(new_wallet.kind)
                     /\ out' = <<>> /\ prompts' = <<>>
                     /\ UNCHANGED <<wallets, created>>
                ELSE /\ wallets' = AppendWallet(wallets, new_wallet.val)
                     /\ created' = Append(created, [option |-> "2", entropy |-> entropy])
                     /\ pc' = "ack" /\ exc' = exc
                     /\ out' = <<CreatedSegWit>>
                     /\ prompts' = <<AckPrompt>>
    /\ UNCHANGED Locals

\* option == "3": the address prompt (lines 133-134)
Option3 ==
    /\ pc = "menu"
    /\ option' = "3"
    /\ pc' = "address3"
    /\ out' = <<>> /\ prompts' = <<AddressPrompt>>
    /\ typed' = <<>> /\ calls' = <<>> /\ simCall' = <<>> /\ result' = <<>>
    /\ UNCHANGED <<wallets, created, exc, index, source_wif, destination>>

\* What main() does with what a wrapper gave back: print it and block at
\* line 204, or die if the wrapper let an exception through.
AfterWrapper(op, body, ret, type, line) ==
    /\ calls' = Append(calls, op)
    /\ result' = <<[op |-> op, raised |-> body.tag = "raise", ret |-> ret]>>
    /\ IF ret.tag = "raise"
       THEN Crash(ret.kind) /\ out' = out /\ prompts' = prompts
       ELSE ToAck(Append(out, Shown(ret, type, line)))

\* option == "3": the address is read (lines 134-139)
EnterBalanceAddress ==
    /\ pc = "address3"
    /\ \E addr \in AddressInputs, net \in LibOutcomes, balance \in Balances :
         /\ typed' = Append(typed, addr)
         /\ AfterWrapper("get_balance",
                         get_balance_body(addr, net, balance),
                         get_balance(addr, net, balance), "int", BalanceLine)
    /\ UNCHANGED <<option, wallets, created, simCall, index, source_wif, destination>>

\* option == "4": the address prompt (lines 141-142)
Option4 ==
    /\ pc = "menu"
    /\ option' = "4"
    /\ pc' = "address4"
    /\ out' = <<>> /\ prompts' = <<AddressPrompt>>
    /\ typed' = <<>> /\ calls' = <<>> /\ simCall' = <<>> /\ result' = <<>>
    /\ UNCHANGED <<wallets, created, exc, index, source_wif, destination>>

\* option == "4": the address is read (lines 142-149)
EnterHistoryAddress ==
    /\ pc = "address4"
    /\ \E addr \in AddressInputs, net \in LibOutcomes, txs \in Histories :
         /\ typed' = Append(typed, addr)
         /\ AfterWrapper("get_transaction_history",
                         get_transaction_history_body(addr, net, txs),
                         get_transaction_history(addr, net, txs), "list", HistoryLine)
    /\ UNCHANGED <<option, wallets, created, simCall, index, source_wif, destination>>

\* option == "5" (lines 151-156)
Option5 ==
    /\ pc = "menu"
    /\ option' = "5"
    /\ typed' = <<>> /\ simCall' = <<>>
    /\ \E net \in LibOutcomes, fee \in Fees :
         LET body == estimate_fee_body(net, fee)
             ret == estimate_fee(net, fee)
         IN  /\ calls' = <<"estimate_fee">>
             /\ result' = <<[op |-> "estimate_fee", raised |-> body.tag = "raise", ret |-> ret]>>
             /\ IF ret.tag = "raise"
                THEN Crash(ret.kind) /\ out' = <<>> /\ prompts' = <<>>
                ELSE /\ pc' = "ack" /\ exc' = exc
                     /\ out' = <<Shown(ret, "int", FeeLine)>>
                     /\ prompts' = <<AckPrompt>>
    /\ UNCHANGED <<wallets, created, index, source_wif, destination>>

\* option == "6" (lines 158-163)
Option6 ==
    /\ pc = "menu"
    /\ option' = "6"
    /\ typed' = <<>> /\ simCall' = <<>>
    /\ \E net \in LibOutcomes, body \in Bodies :
         LET tried == get_bitcoin_price_body(net, body)
             ret == get_bitcoin_price(net, body)
         IN  /\ calls' = <<"get_bitcoin_price">>
             /\ result' = <<[op |-> "get_bitcoin_price", raised |-> tried.tag = "raise", ret |-> ret]>>
             /\ IF ret.tag = "raise"
                THEN Crash(ret.kind) /\ out' = <<>> /\ prompts' = <<>>
                ELSE /\ pc' = "ack" /\ exc' = exc
                     /\ out' = <<Shown(ret, "float", PriceLine)>>
                     /\ prompts' = <<AckPrompt>>
    /\ UNCHANGED <<wallets, created, index, source_wif, destination>>

\* option == "7" (lines 165-175): the guard, the listing, the first prompt
Option7 ==
    /\ pc = "menu"
    /\ option' = "7"
    /\ typed' = <<>> /\ calls' = <<>> /\ simCall' = <<>> /\ result' = <<>>
    /\ IF NoWallets(wallets)
       THEN \* print, continue: the menu is shown again (lines 167-168, 114-115)
            /\ out' = <<MustCreate>>
            /\ prompts' = <<>>
            /\ pc' = "menu"
       ELSE /\ out' = <<AvailableWallets>>
            /\ prompts' = <<SelectPrompt>>
            /\ pc' = "select"
    /\ UNCHANGED <<wallets, created, exc, index, source_wif, destination>>

\* option == "7": the wallet number is read (lines 175-181)
SelectWallet ==
    /\ pc = "select"
    /\ \E text \in IndexInputs :
         LET parsed == int(text)
             i == parsed.val.val - 1
             got == ListGet(wallets, i)
         IN  /\ typed' = Append(typed, text)
             /\ IF parsed.tag = "raise"
                THEN Option7Except(parsed.kind) /\ UNCHANGED <<index, source_wif>>
                ELSE /\ index' = i
                     /\ IF OutOfRange(i, wallets)
                        THEN \* print, continue (lines 177-178)
                             /\ out' = Append(out, InvalidSelection)
                             /\ pc' = "menu"
                             /\ UNCHANGED <<exc, prompts, source_wif>>
                        ELSE IF got.tag = "raise"
                        THEN Option7Except(got.kind) /\ UNCHANGED source_wif
                        ELSE /\ source_wif' = got.val.private_key
                             /\ pc' = "destination"
                             /\ prompts' = Append(prompts, DestinationPrompt)
                             /\ UNCHANGED <<exc, out>>
    /\ UNCHANGED <<option, wallets, created, calls, simCall, result, destination>>

\* option == "7": the destination is read (lines 181-182)
EnterDestination ==
    /\ pc = "destination"
    /\ \E addr \in AddressInputs :
         /\ destination' = addr
         /\ typed' = Append(typed, addr)
    /\ pc' = "amount"
    /\ prompts' = Append(prompts, AmountPrompt)
    /\ UNCHANGED <<option, wallets, created, exc, out, calls, simCall, result,
                   index, source_wif>>

\* option == "7": the amount is read and the simulation runs (lines 182-195)
EnterAmount ==
    /\ pc = "amount"
    /\ \E text \in AmountInputs, keyLib \in LibOutcomes, feeLib \in LibOutcomes,
          fee \in Fees, txLib \in LibOutcomes :
         LET amount == float(text)
             body == simulate_transaction_body(source_wif, destination, amount.val,
                                               keyLib, feeLib, fee, txLib)
             ret == simulate_transaction(source_wif, destination, amount.val,
                                         keyLib, feeLib, fee, txLib)
         IN  /\ typed' = Append(typed, text)
             /\ IF amount.tag = "raise"
                THEN Option7Except(amount.kind) /\ UNCHANGED <<calls, simCall, result>>
                ELSE /\ calls' = Append(calls, "simulate_transaction")
                     /\ simCall' = <<[source_wif |-> source_wif,
                                      destination_address |-> destination,
                                      amount_btc |-> amount.val]>>
                     /\ result' = <<[op |-> "simulate_transaction",
                                     raised |-> body.tag = "raise", ret |-> ret]>>
                     /\ IF ret.tag = "raise"
                        THEN Option7Except(ret.kind)
                        ELSE ToAck(Append(out, Shown(ret, "dict", SimulationLine)))
    /\ UNCHANGED <<option, wallets, created, index, source_wif, destination>>

\* option == "0" (lines 197-199): goodbye, break, main() returns
Option0 ==
    /\ pc = "menu"
    /\ option' = "0"
    /\ out' = <<Goodbye>>
    /\ pc' = "done"
    /\ prompts' = <<>> /\ typed' = <<>> /\ calls' = <<>> /\ simCall' = <<>> /\ result' = <<>>
    /\ UNCHANGED <<wallets, created, exc, index, source_wif, destination>>

\* else (lines 201-202)
OptionInvalid ==
    /\ pc = "menu"
    /\ \E text \in MenuInputs \ MenuOptions :
         option' = text
    /\ out' = <<InvalidOption>>
    /\ pc' = "ack"
    /\ prompts' = <<AckPrompt>>
    /\ typed' = <<>> /\ calls' = <<>> /\ simCall' = <<>> /\ result' = <<>>
    /\ UNCHANGED <<wallets, created, exc, index, source_wif, destination>>

\* input("Press Enter to continue...") returns, the loop shows the menu
\* again (lines 204, 113-115)
Acknowledge ==
    /\ pc = "ack"
    /\ pc' = "menu"
    /\ UNCHANGED <<option, wallets, created, exc, out, prompts, typed, calls,
                   simCall, result, index, source_wif, destination>>

Blocked == {"menu", "address3", "address4", "select", "destination", "amount", "ack"}

InTry == {"select", "destination", "amount"}

\* The input stream ends: input() raises EOFError (lines 115, 134, 142, 175,
\* 181, 182, 204); inside the try of option 7 only ValueError is handled.
InputEOF ==
    /\ pc \in Blocked
    /\ IF pc \in InTry
       THEN Option7Except("EOFError")
       ELSE Crash("EOFError") /\ out' = out /\ prompts' = prompts
    /\ UNCHANGED <<option, wallets, created, typed, calls, simCall, result,
                   index, source_wif, destination>>

Next ==
    \/ Option1
    \/ Option2
    \/ Option3
    \/ EnterBalanceAddress
    \/ Option4
    \/ EnterHistoryAddress
    \/ Option5
    \/ Option6
    \/ Option7
    \/ SelectWallet
    \/ EnterDestination
    \/ EnterAmount
    \/ Option0
    \/ OptionInvalid
    \/ Acknowledge
    \/ InputEOF

Spec == Init /\ [][Next]_vars

----------------------------------------------------------------------------
(* Properties *)

Wrappers ==
    {"get_balance", "get_transaction_history", "estimate_fee",
     "get_bitcoin_price", "simulate_transaction"}

SuccessType(op) ==
    CASE op = "get_balance" -> "int"
      [] op = "get_transaction_history" -> "list"
      [] op = "estimate_fee" -> "int"
      [] op = "get_bitcoin_price" -> "float"
      [] op = "simulate_transaction" -> "dict"

Count(s, x) == Cardinality({i \in 1..Len(s) : s[i] = x})

\* C1: whatever a wrapper was called with, it returns and never raises; when
\* something in its try body raised, it returns a str beginning with "Error";
\* when nothing raised, it returns a value of its success type (int, list,
\* int, float, dict), which is not a str.
C1_ErrorStringOrTypedValue ==
    \A i \in 1..Len(result) :
        LET r == result[i]
        IN  /\ r.op \in Wrappers
            /\ r.ret.tag = "return"
            /\ r.raised => /\ r.ret.val.type = "str"
                           /\ StartsWith(r.ret.val.val, <<"Error">>)
            /\ ~r.raised => /\ r.ret.val.type = SuccessType(r.op)
                            /\ r.ret.val.type # "str"

\* C1 witness: the price request failed or its answer did not parse, and the
\* wrapper gave back an error text that main() printed.
C1_Witness ==
    /\ pc = "ack"
    /\ result # <<>>
    /\ result[1].op = "get_bitcoin_price"
    /\ result[1].raised
    /\ result[1].ret.val.type = "str"
    /\ out = <<result[1].ret.val.val>>

\* C2: the menu is shown again only by the step that reads the
\* acknowledgement, and that prompt was issued exactly once since the menu
\* choice.
C2_AckBeforeMenu ==
    [][pc' = "menu" => (pc = "ack" /\ Count(prompts', AckPrompt) = 1)]_vars

\* C3: the process ends only by option "0" or by the end of the input
\* stream; nothing else leaves main().
C3_NoActionIsFatal ==
    /\ pc = "done" => option = "0"
    /\ pc = "crashed" => exc = "EOFError"

\* C4: option 7 chosen with an empty session list prints the "create a
\* wallet first" message and does nothing else: no prompt, no call, no
\* simulation, the list still empty, the menu shown again.
C4_EmptyListGuard ==
    [][(pc = "menu" /\ option' = "7" /\ wallets = <<>> /\ pc' # "crashed")
        => /\ pc' = "menu"
           /\ exc' = "none"
           /\ out' = <<MustCreate>>
           /\ prompts' = <<>>
           /\ typed' = <<>>
           /\ calls' = <<>>
           /\ simCall' = <<>>
           /\ result' = <<>>
           /\ wallets' = <<>>]_vars

\* C4 witness: option 7 was chosen with no wallet and the menu is shown again.
C4_Witness ==
    /\ pc = "menu"
    /\ option = "7"
    /\ wallets = <<>>
    /\ out = <<MustCreate>>

\* C5: an integer k outside 1..n typed at the wallet prompt prints "Invalid
\* selection." and shows the menu again with nothing else done: no element
\* read, no further prompt, no simulation, the list unchanged.  And whenever
\* simulate_transaction was called from the menu, it was called with the
\* private key of the wallet at the position k that was typed, 1 <= k <= n.
C5_IndexValidation ==
    [][/\ (/\ pc = "select"
           /\ typed' # typed
           /\ IsIntLiteral(Last(typed'))
           /\ \/ IntValue(Last(typed')) < 1
              \/ IntValue(Last(typed')) > Len(wallets))
          => /\ pc' = "menu"
             /\ exc' = "none"
             /\ Last(out') = InvalidSelection
             /\ prompts' = prompts
             /\ calls' = <<>>
             /\ simCall' = <<>>
             /\ result' = <<>>
             /\ source_wif' = source_wif
             /\ wallets' = wallets
       /\ simCall' # <<>>
          => /\ option' = "7"
             /\ IsIntLiteral(typed'[1])
             /\ IntValue(typed'[1]) \in 1..Len(wallets')
             /\ simCall'[1].source_wif = wallets'[IntValue(typed'[1])].private_key]_vars

\* C5 witness: an out-of-range number was typed and the menu is shown again.
C5_Witness ==
    /\ pc = "menu"
    /\ option = "7"
    /\ Len(typed) = 1
    /\ IsIntLiteral(typed[1])
    /\ IntValue(typed[1]) > Len(wallets)
    /\ Last(out) = InvalidSelection

\* C6: text that int() rejects at the wallet prompt, or that float() rejects
\* at the amount prompt, prints "Invalid input." and leads back to the menu
\* through the acknowledgement: no crash, no simulation, the list unchanged.
C6_InvalidNumber ==
    [][(\/ pc = "select" /\ typed' # typed /\ ~IsIntLiteral(Last(typed'))
        \/ pc = "amount" /\ typed' # typed /\ ~IsFloatLiteral(Last(typed')))
        => /\ pc' = "ack"
           /\ exc' = "none"
           /\ Last(out') = InvalidInput
           /\ calls' = <<>>
           /\ simCall' = <<>>
           /\ result' = <<>>
           /\ wallets' = wallets]_vars

\* C6 witness: a wallet was selected, a destination given, and the amount
\* typed was not a number.
C6_Witness ==
    /\ pc = "ack"
    /\ option = "7"
    /\ Len(typed) = 3
    /\ ~IsFloatLiteral(typed[3])
    /\ Last(out) = InvalidInput

FormatOf(opt) == IF opt = "1" THEN LegacyFormat ELSE SegWitFormat

\* C7: a successful option 1 appends exactly one "P2PKH (Legacy)" record at
\* the end of the list, a successful option 2 exactly one "P2SH-P2WPKH
\* (SegWit)" record; the list always holds one record per successful
\* creation, in creation order.
C7_AppendInCreationOrder ==
    [][/\ (pc = "menu" /\ pc' = "ack" /\ option' \in {"1", "2"})
          => /\ Len(wallets') = Len(wallets) + 1
             /\ SubSeq(wallets', 1, Len(wallets)) = wallets
             /\ Last(wallets').format = FormatOf(option')
       /\ Len(wallets') = Len(created')
       /\ \A i \in 1..Len(created') :
            /\ wallets'[i].format = FormatOf(created'[i].option)
            /\ wallets'[i].private_key = bytes_to_wif(created'[i].entropy)]_vars

\* C7 witness: a legacy wallet from one key, then a SegWit wallet from another.
C7_Witness ==
    /\ Len(wallets) = 2
    /\ wallets[1].format = LegacyFormat
    /\ wallets[2].format = SegWitFormat
    /\ wallets[1].private_key # wallets[2].private_key

\* C8: every step leaves the old list as a prefix of the new one, and only
\* a successful option 1 or 2 changes the list at all.
C8_AppendOnly ==
    [][/\ IsPrefix(wallets, wallets')
       /\ wallets' # wallets
          => (pc = "menu" /\ option' \in {"1", "2"} /\ pc' = "ack")]_vars

\* C8 witness: a simulation ran to its end with two wallets in the list.
C8_Witness ==
    /\ pc = "ack"
    /\ option = "7"
    /\ Len(wallets) = 2
    /\ simCall # <<>>

\* C9: the loop ends only on input "0", which prints the goodbye message and
\* leaves main() (the end of the input stream apart); input outside
\* "0".."7" prints the invalid-option message, runs nothing and goes back to
\* the menu through the acknowledgement.
C9_MenuStateMachine ==
    [][/\ (pc' \in {"done", "crashed"} /\ exc' # "EOFError")
          => (pc = "menu" /\ option' = "0" /\ pc' = "done" /\ out' = <<Goodbye>>)
       /\ (pc = "menu" /\ option' \notin MenuOptions /\ pc' # "crashed")
          => (pc' = "ack" /\ out' = <<InvalidOption>> /\ calls' = <<>>)]_vars

\* C10: a successful simulation for the wallet at position index + 1 reports
\* as its source the address stored in that wallet record.
C10_SourceIsWalletAddress ==
    \A i \in 1..Len(result) :
        (result[i].op = "simulate_transaction" /\ result[i].ret.val.type = "dict")
            => result[i].ret.val.val.source = wallets[index + 1].address

====
